---- MODULE Spec2Model ----
(***************************************************************************)
(* A model of app.py, the Flask front of a Yahoo Finance (yfinance) client: *)
(* get_real_stock, get_real_history, get_forecast, validate_ticker and the  *)
(* three ticker routes.                                                     *)
(*                                                                          *)
(* One behaviour is one invocation: Init fixes the pending call and what    *)
(* the provider will answer, one action runs the whole function or route    *)
(* handler and records its outcome and the provider calls it made.          *)
(*                                                                          *)
(* Numbers.  Prices are integers counting ticks, TicksPerCent ticks to the  *)
(* cent, so that yfinance's sub-cent closes exist in the model.  Python's   *)
(* floats are modelled by exact rational arithmetic plus an explicit NaN:   *)
(* the slope is a fraction, the volatility the square root of a fraction    *)
(* (kept as N, K with volatility = sqrt(N)/K), a confidence the value       *)
(* a - b*volatility, and round(x, 2) rounds half to even to whole cents.    *)
(* The rounding error of the float operations is modelled where it decides  *)
(* an outcome: the least-squares solver returns the slope with an error of  *)
(* negligible size and either sign (slopeError), which decides the sign of  *)
(* a slope that is exactly zero and the direction of a rounding tie.        *)
(* Strings are sequences of one-character strings.                          *)
(***************************************************************************)
EXTENDS Integers, Sequences, FiniteSets, TLC

\* ---------------------------------------------------------------- bounds
\* Largest close the provider returns, in ticks.
MaxPrice == 3
\* Longest price history the provider returns.
MaxLen == 4
\* Resolution of a price: ticks per cent.
TicksPerCent == 4
\* Longest ticker a request carries.
MaxTickerLen == 6
\* Largest number, in ticks or units, in the provider's quote.
MaxInfoVal == 2
\* How many fields of a quote depart from a full or an empty quote.
MaxOddFields == 2
\* Largest magnitude of the days parameter, beside the documented 1000.
MaxDays == 400
\* Largest swing, in dollars, of a series that leaves 100 dollars and returns.
MaxSwing == 5

VARIABLES
    call,           \* the pending invocation: the function or route and its arguments
    provider,       \* what yfinance answers during this invocation
    slopeError,     \* the sign of the rounding error of np.polyfit's slope: -1, 0 or 1
    result,         \* the outcome: a return value, a raised exception or an HTTP response
    providerCalls   \* the yfinance calls made so far, in order

vars == <<call, provider, slopeError, result, providerCalls>>

\* ------------------------------------------------------- Python values
PyNone == [t |-> "none"]
PyNum(v) == [t |-> "num", v |-> v]
PyStr(s) == [t |-> "str", v |-> s]
\* dict.get on a key the dict does not hold
Absent == [t |-> "absent"]
\* a float: finite (v) or nan
Fin(v) == [nan |-> FALSE, v |-> v]
NaN == [nan |-> TRUE, v |-> 0]

Abs(a) == IF a < 0 THEN 0 - a ELSE a
Sgn(a) == IF a < 0 THEN 0 - 1 ELSE IF a > 0 THEN 1 ELSE 0

RECURSIVE GCD(_, _)
GCD(a, b) == IF b = 0 THEN a ELSE GCD(b, a % b)

LCM(a, b) == (a \div GCD(a, b)) * b

RECURSIVE SumTo(_, _)
\* f[1] + ... + f[n]
SumTo(f, n) == IF n = 0 THEN 0 ELSE f[n] + SumTo(f, n - 1)

RECURSIVE LcmTo(_, _)
LcmTo(f, n) == IF n = 0 THEN 1 ELSE LCM(f[n], LcmTo(f, n - 1))

RECURSIVE IsqrtIn(_, _, _)
\* the largest s in lo..hi with s*s <= n
IsqrtIn(n, lo, hi) ==
    IF lo >= hi THEN lo
    ELSE LET mid == (lo + hi + 1) \div 2
         IN IF mid <= n \div mid THEN IsqrtIn(n, mid, hi) ELSE IsqrtIn(n, lo, mid - 1)

Isqrt(n) == IsqrtIn(n, 0, IF n < 46340 THEN n ELSE 46340)

\* round(num/den) to an integer, ties to even; den > 0
RoundHalfEven(num, den) ==
    LET q == num \div den
        r == num - q * den
    IN IF 2 * r < den THEN q
       ELSE IF 2 * r > den THEN q + 1
       ELSE IF q % 2 = 0 THEN q ELSE q + 1

\* round(float(x), 2) of an amount of num/den ticks, in cents
Round2(num, den) == RoundHalfEven(num, den * TicksPerCent)

\* round(float(x), 2) of num/den ticks computed with an error of sign err:
\* the error decides a tie, and nothing else
Round2Biased(num, den, err) ==
    LET d == den * TicksPerCent
        q == num \div d
    IN IF 2 * (num - q * d) = d /\ err # 0
       THEN (IF err > 0 THEN q + 1 ELSE q)
       ELSE Round2(num, den)

\* ------------------------------------------------------------- strings
IsSpace(c) == c = " "

RECURSIVE LStrip(_)
LStrip(s) == IF s # <<>> /\ IsSpace(Head(s)) THEN LStrip(Tail(s)) ELSE s

RECURSIVE RStrip(_)
RStrip(s) ==
    IF s # <<>> /\ IsSpace(s[Len(s)]) THEN RStrip(SubSeq(s, 1, Len(s) - 1)) ELSE s

\* str.strip()
Strip(s) == RStrip(LStrip(s))

UpperChar(c) == IF c = "a" THEN "A" ELSE c

\* str.upper()
Upper(s) == [i \in 1..Len(s) |-> UpperChar(s[i])]

\* ------------------------------------------------------- get_forecast
\* the slope of the line through the first and the last point
EndpointSlope(prices) ==
    [nan |-> FALSE, num |-> prices[Len(prices)] - prices[1], den |-> Len(prices) - 1]

\* the least-squares slope with its numerator's terms swapped
NegatedSlope(prices) ==
    LET n == Len(prices)
        Sx == SumTo([i \in 1..n |-> i - 1], n)
        Sy == SumTo(prices, n)
        Sxy == SumTo([i \in 1..n |-> (i - 1) * prices[i]], n)
        Sxx == SumTo([i \in 1..n |-> (i - 1) * (i - 1)], n)
    IN [nan |-> FALSE, num |-> Sx * Sy - n * Sxy, den |-> n * Sxx - Sx * Sx]

\* np.polyfit(np.arange(n), prices, 1)[0] for n >= 2: the least-squares slope,
\* in ticks per day, as the fraction num/den with den > 0
LeastSquaresSlope(prices) ==
    LET n == Len(prices)
        Sx == SumTo([i \in 1..n |-> i - 1], n)
        Sy == SumTo(prices, n)
        Sxy == SumTo([i \in 1..n |-> (i - 1) * prices[i]], n)
        Sxx == SumTo([i \in 1..n |-> (i - 1) * (i - 1)], n)
    IN [nan |-> FALSE, num |-> n * Sxy - Sx * Sy, den |-> n * Sxx - Sx * Sx]

\* The outcomes of np.polyfit(x, prices, 1) on a non-empty series: the
\* least-squares slope, off by a rounding error of sign err.  On one point
\* the scaled Vandermonde matrix holds 0/0: LAPACK either reports a failure
\* (LinAlgError) or returns nan coefficients.
polyfit(prices, err) ==
    IF Len(prices) >= 2
    THEN LET s == LeastSquaresSlope(prices)
         IN {[raises |-> FALSE,
              slope |-> [nan |-> FALSE, num |-> s.num, den |-> s.den, err |-> err]]}
    ELSE {[raises |-> TRUE],
          [raises |-> FALSE, slope |-> [nan |-> TRUE, num |-> 0, den |-> 1, err |-> 0]]}

\* np.diff(prices) / prices[:-1], each return a reduced fraction; a division
\* by a zero price gives inf or nan (a warning, no exception)
Returns(prices) ==
    [i \in 1..(Len(prices) - 1) |->
        LET d == prices[i + 1] - prices[i]
            p == prices[i]
        IN IF p = 0 THEN [finite |-> FALSE, num |-> 0, den |-> 1]
           ELSE LET g == GCD(Abs(d), p)
                IN [finite |-> TRUE, num |-> d \div g, den |-> p \div g]]

\* np.std(returns): the population standard deviation sqrt(N)/K, or nan when
\* the returns are empty or hold an inf or a nan
Volatility(prices) ==
    LET r == Returns(prices)
        m == Len(r)
    IN IF m = 0 \/ (\E i \in 1..m : ~r[i].finite) THEN [nan |-> TRUE, N |-> 0, K |-> 1]
       ELSE LET D == LcmTo([i \in 1..m |-> r[i].den], m)
                a == [i \in 1..m |-> r[i].num * (D \div r[i].den)]
                S1 == SumTo(a, m)
                S2 == SumTo([i \in 1..m |-> a[i] * a[i]], m)
            IN [nan |-> FALSE, N |-> m * S2 - S1 * S1, K |-> m * D]

\* the sign of T - B * sqrt(N), for T >= 0, B > 0 and N >= 0, in integers:
\* with s = floor(sqrt(N)) and T = q*B + r, the quotient q decides unless
\* q = s, and then (s + r/B)^2 is compared with N
CmpRoot(T, B, N) ==
    LET s == Isqrt(N)
        q == T \div B
        r == T % B
    IN IF q > s THEN 1
       ELSE IF q < s THEN 0 - 1
       ELSE Sgn(r * (2 * s * B + r) - B * B * (N - s * s))

\* the sign of A + B * vol, for a finite vol = sqrt(N)/K
SignAff(A, B, vol) ==
    IF B = 0 \/ vol.N = 0 THEN Sgn(A)
    ELSE IF A = 0 THEN Sgn(B)
    ELSE IF Sgn(A) = Sgn(B) THEN Sgn(A)
    ELSE LET g == GCD(Abs(A), Abs(B))
         IN Sgn(A) * CmpRoot((Abs(A) \div g) * vol.K, Abs(B) \div g, vol.N)

\* A float that depends on the volatility: a - b * vol, or nan.
Aff(a, b) == [nan |-> FALSE, a |-> a, b |-> b]
AffNaN == [nan |-> TRUE, a |-> 0, b |-> 0]

\* x < y on floats: false when either is nan
PyLess(x, y, vol) ==
    /\ ~x.nan
    /\ ~y.nan
    /\ SignAff(x.a - y.a, y.b - x.b, vol) < 0

\* min(c, x) and max(c, x) of the Python built-ins: the first argument is
\* kept unless the second compares strictly below (above) it
PyMin(c, x, vol) == IF PyLess(x, c, vol) THEN x ELSE c
PyMax(c, x, vol) == IF PyLess(c, x, vol) THEN x ELSE c

\* base - (volatility * 100 * mult)
Penalised(base, mult, vol) ==
    IF vol.nan THEN AffNaN ELSE Aff(base, 100 * mult)

ConfidenceParamsTypo(key) ==
    CASE key = "confidence_1w" -> [base |-> 85, mult |-> 0, lo |-> 50, hi |-> 95]
      [] key = "confidence_2w" -> [base |-> 80, mult |-> 5, lo |-> 45, hi |-> 90]
      [] key = "confidence_3w" -> [base |-> 85, mult |-> 10, lo |-> 40, hi |-> 85]
      [] key = "confidence_1m" -> [base |-> 70, mult |-> 15, lo |-> 35, hi |-> 80]

\* the numbers of the four confidence lines
ConfidenceParams(key) ==
    CASE key = "confidence_1w" -> [base |-> 85, mult |-> 0, lo |-> 50, hi |-> 95]
      [] key = "confidence_2w" -> [base |-> 80, mult |-> 5, lo |-> 45, hi |-> 90]
      [] key = "confidence_3w" -> [base |-> 75, mult |-> 10, lo |-> 40, hi |-> 85]
      [] key = "confidence_1m" -> [base |-> 70, mult |-> 15, lo |-> 35, hi |-> 80]

ClampNoFloor(lo, hi, x, vol) == PyMin(Aff(hi, 0), x, vol)

\* max(lo, min(hi, x))
Clamp(lo, hi, x, vol) == PyMax(Aff(lo, 0), PyMin(Aff(hi, 0), x, vol), vol)

Confidence(key, vol) ==
    LET c == ConfidenceParams(key)
    IN Clamp(c.lo, c.hi, Penalised(c.base, c.mult, vol), vol)

\* round(float(current_price + trend_slope * h), 2), in cents
Prediction(cur, slope, h) ==
    IF slope.nan THEN NaN
    ELSE Fin(Round2Biased(cur * slope.den + slope.num * h, slope.den, slope.err))

\* the sign of the computed slope: that of the exact one, or of the error
\* when the exact one is zero
SlopeSign(slope) == IF slope.num # 0 THEN Sgn(slope.num) ELSE slope.err

TrendLabelStrict(slope) == IF ~slope.nan /\ SlopeSign(slope) >= 0 THEN "upward" ELSE "downward"

\* "upward" if trend_slope > 0 else "downward"; nan > 0 is false
TrendLabel(slope) == IF ~slope.nan /\ SlopeSign(slope) > 0 THEN "upward" ELSE "downward"

\* the dict get_forecast builds; the "volatility" entry keeps the exact
\* value whose 4-decimal rounding the code returns
ForecastDict(symbol, cur, slope, vol) ==
    [symbol |-> Upper(symbol),
     current_price |-> Fin(Round2(cur, 1)),
     week1 |-> Prediction(cur, slope, 7),
     week2 |-> Prediction(cur, slope, 14),
     week3 |-> Prediction(cur, slope, 21),
     month1 |-> Prediction(cur, slope, 30),
     confidence_1w |-> Confidence("confidence_1w", vol),
     confidence_2w |-> Confidence("confidence_2w", vol),
     confidence_3w |-> Confidence("confidence_3w", vol),
     confidence_1m |-> Confidence("confidence_1m", vol),
     trend |-> TrendLabel(slope),
     volatility |-> vol]

ForecastFailure(symbol) ==
    [kind |-> "raise", message |-> <<"Failed to generate forecast for", symbol>>]

\* The outcomes of get_forecast(symbol, current_price) when ticker.history
\* answers hist: every exception of the body is caught and raised again as
\* the one generic failure.
get_forecast(symbol, current_price, hist, err) ==
    IF hist.raises \/ hist.close = <<>> THEN {ForecastFailure(symbol)}
    ELSE LET prices == hist.close
             cur == IF current_price.t = "none" THEN prices[Len(prices)]
                    ELSE current_price.v
         IN {IF z.raises THEN ForecastFailure(symbol)
             ELSE [kind |-> "return",
                   value |-> ForecastDict(symbol, cur, z.slope, Volatility(prices))] :
             z \in polyfit(prices, err)}

\* ----------------------------------------------------- get_real_stock
InfoKeys ==
    {"currentPrice", "regularMarketPrice", "previousClose", "volume",
     "regularMarketDayHigh", "regularMarketDayLow", "marketCap", "trailingPE",
     "fiftyTwoWeekHigh", "fiftyTwoWeekLow", "averageVolume"}

\* a value is truthy unless it is None or 0
Truthy(v) == v.t = "num" /\ v.v # 0

\* info.get(key): None for a key the dict does not hold
DictGet(d, key) == IF d[key].t = "absent" THEN PyNone ELSE d[key]

\* info.get(key, default)
DictGetOr(d, key, default) == IF d[key].t = "absent" THEN default ELSE d[key]

\* round(float(v), 2) of a number of ticks, as a JSON number of hundredths
JsonRound2(v) == PyNum(Round2(v.v, 1))

\* round(float(info.get(key, 0)), 2) if info.get(key) else 'N/A'
OptionalRounded(d, key) ==
    IF Truthy(DictGet(d, key)) THEN JsonRound2(DictGetOr(d, key, PyNum(0)))
    ELSE PyStr("N/A")

StockFailure(symbol) ==
    [kind |-> "raise",
     message |-> <<"Failed to fetch data for", symbol, "Symbol may be invalid.">>]

\* get_real_stock(symbol) when ticker.info answers info: float(None),
\* int(None) and None - None raise TypeError, caught with everything else
get_real_stock(symbol, info) ==
    IF info.raises THEN StockFailure(symbol)
    ELSE
    LET d == info.dict
        first == DictGet(d, "currentPrice")
        current_price == IF Truthy(first) THEN first
                         ELSE DictGetOr(d, "regularMarketPrice", PyNum(0))
        previous_close == DictGetOr(d, "previousClose", current_price)
        volume == DictGetOr(d, "volume", PyNum(0))
        high == DictGetOr(d, "regularMarketDayHigh", current_price)
        low == DictGetOr(d, "regularMarketDayLow", current_price)
        avgVolume == DictGetOr(d, "averageVolume", PyNum(0))
    IN IF \E v \in {current_price, previous_close, volume, high, low, avgVolume} :
              v.t = "none"
       THEN StockFailure(symbol)
       ELSE
       LET change == current_price.v - previous_close.v
           change_percent ==
               IF previous_close.v # 0
               THEN RoundHalfEven(change * 100 * 100, previous_close.v)
               ELSE 0
       IN [kind |-> "return",
           value |->
              [symbol |-> Upper(symbol),
               currentPrice |-> JsonRound2(current_price),
               changePercent |-> PyNum(change_percent),
               change |-> PyNum(Round2(change, 1)),
               volume |-> volume,
               high |-> JsonRound2(high),
               low |-> JsonRound2(low),
               marketCap |-> DictGetOr(d, "marketCap", PyStr("N/A")),
               peRatio |-> OptionalRounded(d, "trailingPE"),
               week52High |-> OptionalRounded(d, "fiftyTwoWeekHigh"),
               week52Low |-> OptionalRounded(d, "fiftyTwoWeekLow"),
               avgVolume |-> avgVolume,
               lastUpdate |-> PyStr("now")]]

\* --------------------------------------------------- get_real_history
HistoryFailure(symbol) ==
    [kind |-> "raise", message |-> <<"Failed to fetch historical data for", symbol>>]

\* get_real_history(symbol, days) when ticker.history answers hist; a date
\* is modelled by its place in the index
get_real_history(symbol, days, hist) ==
    IF hist.raises \/ hist.close = <<>> THEN HistoryFailure(symbol)
    ELSE [kind |-> "return",
          value |-> [symbol |-> Upper(symbol),
                     dates |-> [i \in 1..Len(hist.close) |-> i],
                     prices |-> [i \in 1..Len(hist.close) |-> Round2(hist.close[i], 1)]]]

\* ------------------------------------------------------------ routes
validate_ticker_unstripped(ticker) ==
    ~(ticker = <<>> \/ Len(ticker) > 5 \/ Len(ticker) < 1)

validate_ticker(ticker) ==
    ~(ticker = <<>> \/ Len(Strip(ticker)) > 5 \/ Len(Strip(ticker)) < 1)

\* jsonify(body), status
Http(status, body) == [kind |-> "response", status |-> status, body |-> body]

InvalidTicker == Http(400, [error |-> <<"Invalid ticker symbol">>])

\* the except clause of a route: jsonify({"error": str(e)}), 400
Boundary(outcome) ==
    IF outcome.kind = "raise" THEN Http(400, [error |-> outcome.message])
    ELSE Http(200, outcome.value)

ProviderCall(api, symbol, period) == [api |-> api, symbol |-> symbol, period |-> period]

\* GET /api/stock/<ticker>
get_stock_summary(ticker, info) ==
    IF ~validate_ticker(ticker) THEN [response |-> InvalidTicker, calls |-> <<>>]
    ELSE [response |-> Boundary(get_real_stock(Strip(ticker), info)),
          calls |-> <<ProviderCall("info", Strip(ticker), 0)>>]

DaysArgUnclamped(param) == IF param.t = "num" THEN param.v ELSE 30

\* request.args.get('days', 30, type=int), then min(max(days, 7), 365):
\* a missing parameter and one int() rejects both give the default
DaysArg(param) ==
    LET days == IF param.t = "num" THEN param.v ELSE 30
        atLeast == IF days > 7 THEN days ELSE 7
    IN IF atLeast < 365 THEN atLeast ELSE 365

\* GET /api/stock/<ticker>/history
get_stock_history(ticker, param, hist) ==
    IF ~validate_ticker(ticker) THEN [response |-> InvalidTicker, calls |-> <<>>]
    ELSE [response |-> Boundary(get_real_history(Strip(ticker), DaysArg(param), hist)),
          calls |-> <<ProviderCall("history", Strip(ticker), DaysArg(param))>>]

\* GET /api/forecast/<ticker>
get_price_forecast(ticker, hist, err) ==
    IF ~validate_ticker(ticker) THEN {[response |-> InvalidTicker, calls |-> <<>>]}
    ELSE {[response |-> Boundary(o),
           calls |-> <<ProviderCall("history", Strip(ticker), 90)>>] :
          o \in get_forecast(Strip(ticker), PyNone, hist, err)}

\* ------------------------------------------------------- the inputs
Dollars(d) == d * 100 * TicksPerCent

\* [100, 102, 104, 106] dollars, in ticks
ExampleSeries == [i \in 1..4 |-> Dollars(100 + 2 * (i - 1))]

\* [100, 100 + k, 100] dollars: daily returns of a few percent
SwingSeries == {<<Dollars(100), Dollars(100 + k), Dollars(100)>> : k \in 1..MaxSwing}

\* the closes of a history: every short series of small prices, and the
\* dollar-sized series above
Series ==
    UNION {[1..n -> 0..MaxPrice] : n \in 0..MaxLen} \cup {ExampleSeries} \cup SwingSeries

\* ticker.history(...): an exception, or a frame of closes (empty or not)
Hists ==
    {[raises |-> TRUE, close |-> <<>>]} \cup {[raises |-> FALSE, close |-> s] : s \in Series}

CoreHists == {h \in Hists : h.raises \/ h.close \in {<<>>, <<1>>, <<1, 2>>}}

TickerChars == {" ", "a"}

\* what the <string:ticker> converter passes on: any non-empty segment
Tickers == UNION {[1..n -> TickerChars] : n \in 1..MaxTickerLen}

CoreTickers == {<<" ", "a">>}

InfoVals == {Absent, PyNone} \cup {PyNum(v) : v \in 0..MaxInfoVal}

EmptyInfo == [k \in InfoKeys |-> Absent]

FullInfo == [k \in InfoKeys |-> PyNum(MaxInfoVal)]

\* the sets of at most MaxOddFields keys
OddKeySets == {T \in SUBSET InfoKeys : Cardinality(T) <= MaxOddFields}

\* base with the keys of g overwritten
Patch(base, g) == [k \in InfoKeys |-> IF k \in DOMAIN g THEN g[k] ELSE base[k]]

InfoRaises == [raises |-> TRUE, dict |-> EmptyInfo]

\* ticker.info: an exception, or an empty or a full dict
CoreInfos == {InfoRaises} \cup {[raises |-> FALSE, dict |-> d] : d \in {EmptyInfo, FullInfo}}

\* the days query parameter: missing, text int() rejects, or an integer
NoParam == [t |-> "absent"]
TextParam == [t |-> "text"]

DaysParams ==
    {NoParam, TextParam} \cup {PyNum(n) : n \in ((0 - MaxDays)..MaxDays) \cup {1000}}

CoreDays == {NoParam, PyNum(0), PyNum(60), PyNum(1000)}

Overrides == {PyNone} \cup {PyNum(v) : v \in 0..MaxPrice}

SlopeErrors == {0 - 1, 0, 1}

NoResult == [kind |-> "none"]

\* ------------------------------------------------- the state machine
InitGetForecast ==
    \E o \in Overrides, h \in Hists :
        /\ call = [op |-> "get_forecast", symbol |-> <<"a">>, current_price |-> o]
        /\ provider = h
        /\ slopeError \in SlopeErrors

\* Every ticker against the main provider answers, and the main tickers
\* against every dict that differs from the full or the empty one on at
\* most MaxOddFields keys.
InitStock ==
    \/ \E t \in Tickers, i \in CoreInfos :
          /\ call = [op |-> "get_stock_summary", ticker |-> t]
          /\ provider = i
          /\ slopeError = 0
    \/ \E t \in CoreTickers, base \in {EmptyInfo, FullInfo}, S \in OddKeySets :
          \E g \in [S -> InfoVals] :
              /\ call = [op |-> "get_stock_summary", ticker |-> t]
              /\ provider = [raises |-> FALSE, dict |-> Patch(base, g)]
              /\ slopeError = 0

HistoryInputs ==
    (Tickers \X CoreDays \X CoreHists)
        \cup (CoreTickers \X DaysParams \X CoreHists)
        \cup (CoreTickers \X CoreDays \X Hists)

InitHistory ==
    \E in \in HistoryInputs :
        /\ call = [op |-> "get_stock_history", ticker |-> in[1], days |-> in[2]]
        /\ provider = in[3]
        /\ slopeError = 0

ForecastInputs == (Tickers \X CoreHists) \cup (CoreTickers \X Hists)

InitForecastRoute ==
    \E in \in ForecastInputs :
        /\ call = [op |-> "get_price_forecast", ticker |-> in[1]]
        /\ provider = in[2]
        /\ slopeError \in SlopeErrors

Init ==
    /\ result = NoResult
    /\ providerCalls = <<>>
    /\ \/ InitGetForecast
       \/ InitStock
       \/ InitHistory
       \/ InitForecastRoute

\* a direct call of get_forecast(symbol, current_price)
CallGetForecast ==
    /\ call.op = "get_forecast"
    /\ result = NoResult
    /\ \E o \in get_forecast(call.symbol, call.current_price, provider, slopeError) :
           result' = o
    /\ providerCalls' = Append(providerCalls, ProviderCall("history", call.symbol, 90))
    /\ UNCHANGED <<call, provider, slopeError>>

RequestStock ==
    /\ call.op = "get_stock_summary"
    /\ result = NoResult
    /\ LET r == get_stock_summary(call.ticker, provider)
       IN /\ result' = r.response
          /\ providerCalls' = providerCalls \o r.calls
    /\ UNCHANGED <<call, provider, slopeError>>

RequestHistory ==
    /\ call.op = "get_stock_history"
    /\ result = NoResult
    /\ LET r == get_stock_history(call.ticker, call.days, provider)
       IN /\ result' = r.response
          /\ providerCalls' = providerCalls \o r.calls
    /\ UNCHANGED <<call, provider, slopeError>>

RequestForecast ==
    /\ call.op = "get_price_forecast"
    /\ result = NoResult
    /\ \E r \in get_price_forecast(call.ticker, provider, slopeError) :
          /\ result' = r.response
          /\ providerCalls' = providerCalls \o r.calls
    /\ UNCHANGED <<call, provider, slopeError>>

Next ==
    \/ CallGetForecast
    \/ RequestStock
    \/ RequestHistory
    \/ RequestForecast

Spec == Init /\ [][Next]_vars

\* ------------------------------------------------------ the claims
RouteCall == call.op \in {"get_stock_summary", "get_stock_history", "get_price_forecast"}

Responded == result.kind = "response"

\* a forecast dict came back, from the function or through its route
Forecasted ==
    \/ call.op = "get_forecast" /\ result.kind = "return"
    \/ call.op = "get_price_forecast" /\ Responded /\ result.status = 200

Forecast == IF call.op = "get_forecast" THEN result.value ELSE result.body

NoOverride == call.op = "get_price_forecast" \/ call.current_price.t = "none"

ForecastCall == call.op \in {"get_forecast", "get_price_forecast"}

\* the specification's rule: 1 to 5 characters after trimming
ClaimValidTicker == Len(Strip(call.ticker)) >= 1 /\ Len(Strip(call.ticker)) <= 5

ConfidenceKeys == <<"confidence_1w", "confidence_2w", "confidence_3w", "confidence_1m">>

PredictionKeys == <<"week1", "week2", "week3", "month1">>

Horizon(key) ==
    CASE key = "week1" -> 7 [] key = "week2" -> 14 [] key = "week3" -> 21 [] key = "month1" -> 30

\* the clamp band the specification gives each horizon
ClaimBand(key) ==
    CASE key = "confidence_1w" -> <<50, 95>>
      [] key = "confidence_2w" -> <<45, 90>>
      [] key = "confidence_3w" -> <<40, 85>>
      [] key = "confidence_1m" -> <<35, 80>>

\* lo <= c <= hi for a confidence c = a - b * vol
WithinBand(c, lo, hi, vol) ==
    /\ ~c.nan
    /\ SignAff(c.a - lo, 0 - c.b, vol) >= 0
    /\ SignAff(hi - c.a, c.b, vol) >= 0

\* x >= y for confidences under the volatility vol
AtLeast(x, y, vol) == ~x.nan /\ ~y.nan /\ SignAff(x.a - y.a, y.b - x.b, vol) >= 0

\* the least-squares slope as covariance over variance of the centred data,
\* scaled by n*n: the reference the predictions are compared with
OlsSlope(prices) ==
    LET n == Len(prices)
        Sx == SumTo([i \in 1..n |-> i - 1], n)
        Sy == SumTo(prices, n)
    IN [num |-> SumTo([i \in 1..n |-> (n * (i - 1) - Sx) * (n * prices[i] - Sy)], n),
        den |-> SumTo([i \in 1..n |-> (n * (i - 1) - Sx) * (n * (i - 1) - Sx)], n)]

\* cents is a multiple of 0.01 nearest to num/den ticks
NearestCent(cents, num, den) ==
    2 * Abs(cents * den * TicksPerCent - num) <= den * TicksPerCent

\* a PriceSeries of the specification: every close above zero
Positive(prices) == \A i \in 1..Len(prices) : prices[i] > 0

Constant(prices) == \A i \in 1..Len(prices) : prices[i] = prices[1]

Increasing(prices) == \A i \in 1..(Len(prices) - 1) : prices[i] < prices[i + 1]

\* C1: every confidence get_forecast returns lies inside the clamp band of
\* its horizon, [50,95], [45,90], [40,85], [35,80], whatever the series.
C1_ConfidenceWithinBand ==
    Forecasted =>
        \A i \in 1..4 :
            WithinBand(Forecast[ConfidenceKeys[i]], ClaimBand(ConfidenceKeys[i])[1],
                       ClaimBand(ConfidenceKeys[i])[2], Forecast.volatility)

\* C1 witness: a forecast of positive volatility whose 1-month confidence the
\* clamp held at its floor of 35 while the 2-week one is still above its floor.
C1_Witness ==
    /\ Forecasted
    /\ ~Forecast.volatility.nan
    /\ Forecast.volatility.N > 0
    /\ Forecast.confidence_1m = Aff(35, 0)
    /\ Forecast.confidence_2w.b # 0

\* C2: in every forecast the confidences do not increase with the horizon:
\* confidence_1w >= confidence_2w >= confidence_3w >= confidence_1m (stated
\* for every forecast, so also for every volatility > 0).
C2_ConfidenceNonIncreasing ==
    Forecasted =>
        \A i \in 1..3 :
            AtLeast(Forecast[ConfidenceKeys[i]], Forecast[ConfidenceKeys[i + 1]],
                    Forecast.volatility)

\* C2 witness: a forecast of positive volatility in which no confidence is
\* clamped, so the order rests on the bases and the penalties.
C2_Witness ==
    /\ Forecasted
    /\ ~Forecast.volatility.nan
    /\ Forecast.volatility.N > 0
    /\ \A i \in 2..4 : Forecast[ConfidenceKeys[i]].b # 0

C4_InvalidTickerNoProviderCall ==
    RouteCall =>
        IF ClaimValidTicker
        THEN Responded => providerCalls # <<>>
        ELSE /\ providerCalls = <<>>
             /\ Responded => result.status = 400 /\ DOMAIN result.body = {"error"}

\* C4 witness: a ticker longer than 5 after trimming was answered 400 with
\* no provider call.
C4_Witness ==
    /\ RouteCall
    /\ Len(Strip(call.ticker)) > 5
    /\ Responded
    /\ result.status = 400
    /\ providerCalls = <<>>

\* the provider raised, or returned no data at all
ProviderFailed ==
    \/ provider.raises
    \/ IF call.op = "get_stock_summary" THEN provider.dict = EmptyInfo
       ELSE provider.close = <<>>

\* C5: for a valid ticker, whenever the provider raises or returns empty
\* data the response is 400 and its body holds only an error message.
C5_ProviderFailureIs400 ==
    (RouteCall /\ Responded /\ ClaimValidTicker /\ ProviderFailed)
        => result.status = 400 /\ DOMAIN result.body = {"error"}

\* C6 as stated: with n >= 2 prices and no override, currentPrice is the last
\* price and each prediction is exactly currentPrice + slope * h (read on
\* positive closes and a fit without rounding error).
C6_PredictionExact ==
    (/\ Forecasted
     /\ NoOverride
     /\ Len(provider.close) >= 2
     /\ Positive(provider.close)
     /\ slopeError = 0) =>
        LET prices == provider.close
            last == prices[Len(prices)]
            s == OlsSlope(prices)
        IN /\ Forecast.current_price = Fin(last \div TicksPerCent)
           /\ last % TicksPerCent = 0
           /\ \A i \in 1..4 :
                 LET f == Forecast[PredictionKeys[i]]
                 IN ~f.nan /\ f.v * s.den * TicksPerCent
                                 = last * s.den + s.num * Horizon(PredictionKeys[i])

\* C6 amended: with n >= 2 prices and no override, currentPrice is the last
\* price and each prediction is currentPrice + slope * h with slope the
\* least-squares slope, each rounded to 2 decimals; [100, 102, 104, 106]
\* gives currentPrice 106, week1 120, month1 166 and trend "upward".
C6_PredictionRounded ==
    (Forecasted /\ NoOverride /\ Len(provider.close) >= 2) =>
        LET prices == provider.close
            last == prices[Len(prices)]
            s == OlsSlope(prices)
        IN /\ ~Forecast.current_price.nan
           /\ NearestCent(Forecast.current_price.v, last, 1)
           /\ \A i \in 1..4 :
                 LET f == Forecast[PredictionKeys[i]]
                 IN ~f.nan /\ NearestCent(f.v, last * s.den
                                               + s.num * Horizon(PredictionKeys[i]), s.den)
           /\ prices = ExampleSeries =>
                 /\ Forecast.current_price = Fin(10600)
                 /\ Forecast.week1 = Fin(12000)
                 /\ Forecast.month1 = Fin(16600)
                 /\ Forecast.trend = "upward"

\* C6 witness: the forecast of [100, 102, 104, 106].
C6_Witness ==
    /\ Forecasted
    /\ NoOverride
    /\ provider.close = ExampleSeries
    /\ Forecast.week1 = Fin(12000)

C8_IncreasingUpward ==
    (Forecasted /\ Len(provider.close) >= 2 /\ Increasing(provider.close)) =>
        /\ Forecast.trend = "upward"
        /\ \A i \in 1..4 : ~Forecast[PredictionKeys[i]].nan
        /\ \A i \in 1..3 :
              Forecast[PredictionKeys[i]].v <= Forecast[PredictionKeys[i + 1]].v

\* C8 witness: a forecast of a strictly increasing series of at least 3
\* prices with week1 strictly below month1.
C8_Witness ==
    /\ Forecasted
    /\ Len(provider.close) >= 3
    /\ Increasing(provider.close)
    /\ Forecast.trend = "upward"
    /\ Forecast.week1.v < Forecast.month1.v

\* C9: the history route passes the provider a number of days in [7, 365]:
\* 30 when the parameter is missing, else the requested number clamped
\* (0 becomes 7, 1000 becomes 365, 60 stays 60).
C9_DaysClamped ==
    call.op = "get_stock_history" =>
        /\ (Responded /\ ClaimValidTicker) => Len(providerCalls) = 1
        /\ \A i \in 1..Len(providerCalls) :
              LET days == providerCalls[i].period
              IN /\ days >= 7
                 /\ days <= 365
                 /\ call.days.t = "absent" => days = 30
                 /\ call.days.t = "num" =>
                       days = IF call.days.v < 7 THEN 7
                              ELSE IF call.days.v > 365 THEN 365 ELSE call.days.v

\* C9 witness: days=1000 reached the provider as 365.
C9_Witness ==
    /\ call.op = "get_stock_history"
    /\ Responded
    /\ call.days = PyNum(1000)
    /\ Len(providerCalls) = 1
    /\ providerCalls[1].period = 365

OptionalFields ==
    {<<"marketCap", "marketCap">>, <<"peRatio", "trailingPE">>,
     <<"week52High", "fiftyTwoWeekHigh">>, <<"week52Low", "fiftyTwoWeekLow">>}

\* C10: in a successful quote (of a provider answer that carries a current
\* price) every optional field the provider gives no value for (key
\* missing, or None) is the string "N/A", never null.
C10_MissingOptionalIsNA ==
    (/\ call.op = "get_stock_summary"
     /\ Responded
     /\ result.status = 200
     /\ Truthy(provider.dict["currentPrice"])) =>
        \A f \in OptionalFields :
            provider.dict[f[2]].t \in {"absent", "none"} =>
                /\ result.body[f[1]].t # "none"
                /\ result.body[f[1]] = PyStr("N/A")

====
